---- MODULE Spec2Model ----
(***************************************************************************)
(* Model of final.py (CYS Multi-PDF Requirement Extractor): the line       *)
(* segmentation loop of extract_requirements_from, the word diff of        *)
(* highlight_diff and the table merge of save_to_excel.                    *)
(*                                                                         *)
(* Text is modelled character by character: a string is a sequence of      *)
(* one-character strings, so that strip/split/join, the regular            *)
(* expressions and difflib's similarity ratio are computed, not assumed.   *)
(* Indices of the difflib part are 0-based and half-open as in Python.     *)
(***************************************************************************)
EXTENDS Integers, Sequences, FiniteSets, TLC

\* ------------------------------------------------------------------------
\* Strings
\* ------------------------------------------------------------------------
Max(S) == CHOOSE x \in S : \A y \in S : y <= x
Min(S) == CHOOSE x \in S : \A y \in S : x <= y
Range(s) == {s[k] : k \in DOMAIN s}

\* str.isspace for the characters of the model
isspace(c) == c \in {" ", "\n"}

\* a[i] and a[lo:hi] of Python
At(s, i) == s[i + 1]
Slice(s, lo, hi) == SubSeq(s, lo + 1, hi)

\* s.startswith(p)
startswith(s, p) == Len(s) >= Len(p) /\ SubSeq(s, 1, Len(p)) = p

\* the least e >= p (0-based) with e = len(s) or s[e] not in C: the end of the
\* run of characters of C that starts at p
RECURSIVE RunEnd(_, _, _)
RunEnd(s, p, C) == IF p < Len(s) /\ At(s, p) \in C THEN RunEnd(s, p + 1, C) ELSE p

RECURSIVE TokensFrom(_, _)
TokensFrom(s, p) ==
    LET starts == {k \in p .. Len(s) - 1 : ~ isspace(At(s, k))}
    IN  IF starts = {} THEN <<>>
        ELSE LET b == Min(starts)
                 e == RunEnd(s, b, Range(s) \ {" ", "\n"})
             IN  <<Slice(s, b, e)>> \o TokensFrom(s, e)

\* str.split(): the maximal runs of non-whitespace characters
split(s) == TokensFrom(s, 0)

RECURSIVE join(_, _)
\* sep.join(parts)
join(sep, parts) ==
    IF parts = <<>> THEN <<>>
    ELSE IF Len(parts) = 1 THEN parts[1]
    ELSE parts[1] \o sep \o join(sep, Tail(parts))

RECURSIVE rstrip(_)
rstrip(s) ==
    IF s = <<>> THEN s
    ELSE IF isspace(s[Len(s)]) THEN rstrip(SubSeq(s, 1, Len(s) - 1)) ELSE s

RECURSIVE lstrip(_)
lstrip(s) ==
    IF s = <<>> THEN s
    ELSE IF isspace(s[1]) THEN lstrip(Tail(s)) ELSE s

strip(s) == lstrip(rstrip(s))

RECURSIVE Repeat(_, _)
\* c * n
Repeat(c, n) == IF n <= 0 THEN <<>> ELSE <<c>> \o Repeat(c, n - 1)

\* ------------------------------------------------------------------------
\* difflib.SequenceMatcher (no junk; the autojunk heuristic needs 200
\* elements and is out of reach of the bounds)
\* ------------------------------------------------------------------------
RECURSIVE CommonLen(_, _, _, _, _, _)
\* length of the common run of a[i:ahi] and b[j:bhi] that starts at (i, j)
CommonLen(a, b, i, j, ahi, bhi) ==
    IF i < ahi /\ j < bhi /\ At(a, i) = At(b, j)
    THEN 1 + CommonLen(a, b, i + 1, j + 1, ahi, bhi)
    ELSE 0

\* (i, j, k): the longest block a[i:i+k] = b[j:j+k] inside the ranges, of
\* those the one with the least i, of those the one with the least j; this
\* is what the scan over i and b2j[a[i]] with "k > bestsize" returns.
find_longest_match(a, b, alo, ahi, blo, bhi) ==
    LET cand == (alo .. ahi - 1) \X (blo .. bhi - 1)
        len(p) == CommonLen(a, b, p[1], p[2], ahi, bhi)
        bestsize == Max({len(p) : p \in cand} \cup {0})
    IN  IF bestsize = 0 THEN <<alo, blo, 0>>
        ELSE LET besti == Min({p[1] : p \in {q \in cand : len(q) = bestsize}})
                 bestj == Min({p[2] : p \in {q \in cand : len(q) = bestsize /\ q[1] = besti}})
             IN  <<besti, bestj, bestsize>>

RECURSIVE matching_blocks(_, _, _, _, _, _)
\* the pieces left and right of the longest block x, and x between them
blocks_around(a, b, alo, ahi, blo, bhi, x) ==
    IF x[3] = 0 THEN <<>>
    ELSE (IF alo < x[1] /\ blo < x[2] THEN matching_blocks(a, b, alo, x[1], blo, x[2]) ELSE <<>>)
         \o <<x>>
         \o (IF x[1] + x[3] < ahi /\ x[2] + x[3] < bhi
             THEN matching_blocks(a, b, x[1] + x[3], ahi, x[2] + x[3], bhi) ELSE <<>>)

\* the sorted list of matching blocks of a[alo:ahi] and b[blo:bhi]
matching_blocks(a, b, alo, ahi, blo, bhi) ==
    blocks_around(a, b, alo, ahi, blo, bhi, find_longest_match(a, b, alo, ahi, blo, bhi))

\* get_matching_blocks(): the blocks and the sentinel (la, lb, 0)
get_matching_blocks(a, b) ==
    Append(matching_blocks(a, b, 0, Len(a), 0, Len(b)), <<Len(a), Len(b), 0>>)

RECURSIVE opcodes_from(_, _, _, _)
opcodes_from(blocks, n, i, j) ==
    IF n > Len(blocks) THEN <<>>
    ELSE LET ai == blocks[n][1]
             bj == blocks[n][2]
             size == blocks[n][3]
             tag == IF i < ai /\ j < bj THEN "replace"
                    ELSE IF i < ai THEN "delete"
                    ELSE IF j < bj THEN "insert"
                    ELSE ""
         IN  (IF tag # "" THEN << <<tag, i, ai, j, bj>> >> ELSE <<>>)
             \o (IF size > 0 THEN << <<"equal", ai, ai + size, bj, bj + size>> >> ELSE <<>>)
             \o opcodes_from(blocks, n + 1, ai + size, bj + size)

\* get_opcodes(): (tag, i1, i2, j1, j2) turning a into b
get_opcodes(a, b) == opcodes_from(get_matching_blocks(a, b), 1, 0, 0)

RECURSIVE SumSizes(_)
SumSizes(blocks) == IF blocks = <<>> THEN 0 ELSE blocks[1][3] + SumSizes(Tail(blocks))

\* ratio() = 2.0 * matches / (len(a) + len(b)), kept as the fraction <<num, den>>
ratio(a, b) ==
    IF Len(a) + Len(b) = 0 THEN <<1, 1>>
    ELSE <<2 * SumSizes(get_matching_blocks(a, b)), Len(a) + Len(b)>>

\* p > q for fractions with positive denominators
RatioGt(p, q) == p[1] * q[2] > q[1] * p[2]

\* ------------------------------------------------------------------------
\* difflib.Differ / ndiff on lists of tokens
\* ------------------------------------------------------------------------
\* _dump: '%s %s' % (tag, x[i]) for i in range(lo, hi)
dump(tag, x, lo, hi) == [n \in 1 .. (hi - lo) |-> <<tag, " ">> \o At(x, lo + n - 1)]

\* _plain_replace: the shorter block first
plain_replace(a, alo, ahi, b, blo, bhi) ==
    IF bhi - blo < ahi - alo
    THEN dump("+", b, blo, bhi) \o dump("-", a, alo, ahi)
    ELSE dump("-", a, alo, ahi) \o dump("+", b, blo, bhi)

\* The double loop "for j in range(blo, bhi): for i in range(alo, ahi)" of
\* _fancy_replace visits the pair (i, j) at position
\* (j - blo) * (ahi - alo) + (i - alo).  A visit is <<position, i, j>>.
visits(alo, ahi, blo, bhi) ==
    {<<(p[2] - blo) * (ahi - alo) + (p[1] - alo), p[1], p[2]>> :
        p \in (alo .. ahi - 1) \X (blo .. bhi - 1)}

\* the visits with ai == bj
identical(a, b, vs) == {v \in vs : At(a, v[2]) = At(b, v[3])}

\* <<position, i, j, ratio>> of the visits whose cruncher.ratio() is above
\* the initial best_ratio of 0.74
similar(a, b, vs) ==
    {w \in {<<v[1], v[2], v[3], ratio(At(a, v[2]), At(b, v[3]))>> : v \in vs} :
        RatioGt(w[4], <<74, 100>>)}

\* "if cruncher.ratio() > best_ratio" keeps the first visit of the greatest ratio
best_visit(cand) ==
    IF cand = {} THEN <<-1, -1, -1, <<74, 100>> >>
    ELSE CHOOSE w \in cand : \A u \in cand :
             RatioGt(w[4], u[4]) \/ (~ RatioGt(u[4], w[4]) /\ w[1] <= u[1])

\* "if eqi is None" keeps the first visit of an identical pair
first_visit(same) ==
    IF same = {} THEN <<-1, -1, -1>>
    ELSE CHOOSE v \in same : \A u \in same : v[1] <= u[1]

\* best_ratio, best_i, best_j, eqi, eqj after the loop, -1 for None
search_result(best, first) ==
    [best_ratio |-> best[4], best_i |-> best[2], best_j |-> best[3],
     eqi |-> first[2], eqj |-> first[3]]

\* the loop's outcome from the identical visits and the other ones
search_among(a, b, same, vs) ==
    search_result(best_visit(similar(a, b, vs \ same)), first_visit(same))

\* the search of _fancy_replace for the best synch pair: st is
\* [best_ratio, best_i, best_j, eqi, eqj]
fancy_search(a, alo, ahi, b, blo, bhi) ==
    search_among(a, b, identical(a, b, visits(alo, ahi, blo, bhi)),
                 visits(alo, ahi, blo, bhi))

RECURSIVE tags_of(_, _, _)
\* atags (side = 1) or btags (side = 2) built from the opcodes of the pair
tags_of(ops, n, side) ==
    IF n > Len(ops) THEN <<>>
    ELSE LET tag == ops[n][1]
             la == ops[n][3] - ops[n][2]
             lb == ops[n][5] - ops[n][4]
             piece == IF tag = "replace" THEN Repeat("^", IF side = 1 THEN la ELSE lb)
                      ELSE IF tag = "delete" THEN (IF side = 1 THEN Repeat("-", la) ELSE <<>>)
                      ELSE IF tag = "insert" THEN (IF side = 1 THEN <<>> ELSE Repeat("+", lb))
                      ELSE Repeat(" ", IF side = 1 THEN la ELSE lb)
         IN  piece \o tags_of(ops, n + 1, side)

\* _keep_original_ws(s, tag_s): zip stops at the shorter of the two
keep_original_ws(s, tag_s) ==
    [k \in 1 .. (IF Len(s) < Len(tag_s) THEN Len(s) ELSE Len(tag_s)) |->
        IF tag_s[k] = " " /\ isspace(s[k]) THEN s[k] ELSE tag_s[k]]

\* _qformat: the '-', '?', '+', '?' quad of a synched pair
qformat(aline, bline, atags, btags) ==
    LET at == rstrip(keep_original_ws(aline, atags))
        bt == rstrip(keep_original_ws(bline, btags))
    IN  << <<"-", " ">> \o aline >>
        \o (IF at # <<>> THEN << <<"?", " ">> \o at \o <<"\n">> >> ELSE <<>>)
        \o << <<"+", " ">> \o bline >>
        \o (IF bt # <<>> THEN << <<"?", " ">> \o bt \o <<"\n">> >> ELSE <<>>)

\* the synch pair's quad: "-", "?", "+", "?" built from the opcodes of the pair
synch_quad(aelt, belt, ops) == qformat(aelt, belt, tags_of(ops, 1, 1), tags_of(ops, 1, 2))

RECURSIVE fancy_replace(_, _, _, _, _, _)
RECURSIVE fancy_helper(_, _, _, _, _, _)
\* _fancy_helper
fancy_helper(a, alo, ahi, b, blo, bhi) ==
    IF alo < ahi
    THEN (IF blo < bhi THEN fancy_replace(a, alo, ahi, b, blo, bhi)
          ELSE dump("-", a, alo, ahi))
    ELSE IF blo < bhi THEN dump("+", b, blo, bhi) ELSE <<>>

\* _fancy_replace from "a[best_i] very similar to b[best_j]" on: what comes
\* before the synch point, the synch pair, what comes after it
fancy_synch(a, alo, ahi, b, blo, bhi, best_i, best_j, close) ==
    fancy_helper(a, alo, best_i, b, blo, best_j)
    \o (IF close
        THEN synch_quad(At(a, best_i), At(b, best_j),
                        get_opcodes(At(a, best_i), At(b, best_j)))
        ELSE << <<" ", " ">> \o At(a, best_i) >>)
    \o fancy_helper(a, best_i + 1, ahi, b, best_j + 1, bhi)

\* _fancy_replace after the search: st.best_ratio < cutoff (0.75) with no
\* identical pair is a plain replace, with an identical pair a synch on it
fancy_decide(a, alo, ahi, b, blo, bhi, st) ==
    IF RatioGt(<<75, 100>>, st.best_ratio)
    THEN (IF st.eqi = -1 THEN plain_replace(a, alo, ahi, b, blo, bhi)
          ELSE fancy_synch(a, alo, ahi, b, blo, bhi, st.eqi, st.eqj, FALSE))
    ELSE fancy_synch(a, alo, ahi, b, blo, bhi, st.best_i, st.best_j, TRUE)

\* _fancy_replace
fancy_replace(a, alo, ahi, b, blo, bhi) ==
    fancy_decide(a, alo, ahi, b, blo, bhi, fancy_search(a, alo, ahi, b, blo, bhi))

RECURSIVE compare_from(_, _, _, _)
compare_from(a, b, ops, n) ==
    IF n > Len(ops) THEN <<>>
    ELSE LET tag == ops[n][1]
             alo == ops[n][2]
             ahi == ops[n][3]
             blo == ops[n][4]
             bhi == ops[n][5]
             g == IF tag = "replace" THEN fancy_replace(a, alo, ahi, b, blo, bhi)
                  ELSE IF tag = "delete" THEN dump("-", a, alo, ahi)
                  ELSE IF tag = "insert" THEN dump("+", b, blo, bhi)
                  ELSE dump(" ", a, alo, ahi)
         IN  g \o compare_from(a, b, ops, n + 1)

\* difflib.ndiff(a, b) = Differ().compare(a, b): the delta lines
ndiff(a, b) == compare_from(a, b, get_opcodes(a, b), 1)

\* ------------------------------------------------------------------------
\* highlight_diff
\* ------------------------------------------------------------------------
\* "*w*" for an added token, the text after the two-character tag otherwise
marked(w) ==
    IF startswith(w, <<"+", " ">>)
    THEN <<"*">> \o Slice(w, 2, Len(w)) \o <<"*">>
    ELSE Slice(w, 2, Len(w))

\* the delta lines that do not start with "- ", marked
marked_all(kept) == [k \in DOMAIN kept |-> marked(kept[k])]

highlight_diff(old, new) ==
    join(<<" ">>,
         marked_all(SelectSeq(ndiff(split(old), split(new)),
                              LAMBDA w : ~ startswith(w, <<"-", " ">>))))

\* ------------------------------------------------------------------------
\* Character classes and the regular expressions of final.py
\* ------------------------------------------------------------------------
Uppers == <<"A", "B", "C", "D", "E", "F", "G", "H", "I", "J", "K", "L", "M",
            "N", "O", "P", "Q", "R", "S", "T", "U", "V", "W", "X", "Y", "Z">>
Lowers == <<"a", "b", "c", "d", "e", "f", "g", "h", "i", "j", "k", "l", "m",
            "n", "o", "p", "q", "r", "s", "t", "u", "v", "w", "x", "y", "z">>
Digit == {"0", "1", "2", "3", "4", "5", "6", "7", "8", "9"}
Alpha == Range(Uppers) \cup Range(Lowers)
\* \w
Word == Alpha \cup Digit \cup {"_"}
\* \s
Space == {" ", "\n"}

lower1(c) == IF c \in Range(Uppers) THEN Lowers[CHOOSE k \in 1 .. 26 : Uppers[k] = c] ELSE c
\* str.lower()
lower(s) == [k \in DOMAIN s |-> lower1(s[k])]

\* the 0-based positions at which sub occurs in s
Occurs(s, sub) == {p \in 0 .. (Len(s) - Len(sub)) : Slice(s, p, p + Len(sub)) = sub}

\* GUID_PATTERN = CYS-[A-Z]+[_\s-]*[\w-]+ (IGNORECASE) tried at position p:
\* the end of the match, or -1.  The letters run and the separator run are
\* greedy and give characters back (longest letters run first, then longest
\* separator run) until one character of [\w-] follows.
GuidMatchEnd(s, p) ==
    IF ~ (p + 4 <= Len(s) /\ lower(Slice(s, p, p + 4)) = <<"c", "y", "s", "-">>) THEN -1
    ELSE LET q == p + 4
             lmax == RunEnd(s, q, Alpha) - q
             smax(l) == RunEnd(s, q + l, {"_", "-"} \cup Space) - (q + l)
             wend(l, sl) == RunEnd(s, q + l + sl, Word \cup {"-"})
             cands == {x \in (1 .. lmax) \X (0 .. Len(s)) :
                          x[2] <= smax(x[1]) /\ wend(x[1], x[2]) > q + x[1] + x[2]}
         IN  IF cands = {} THEN -1
             ELSE LET l == Max({x[1] : x \in cands})
                      sl == Max({x[2] : x \in {y \in cands : y[1] = l}})
                  IN  wend(l, sl)

RECURSIVE findall_from(_, _)
findall_from(s, pos) ==
    LET starts == {p \in pos .. Len(s) - 1 : GuidMatchEnd(s, p) # -1}
    IN  IF starts = {} THEN <<>>
        ELSE LET p == Min(starts)
             IN  <<Slice(s, p, GuidMatchEnd(s, p))>> \o findall_from(s, GuidMatchEnd(s, p))

\* GUID_PATTERN.findall(line): the matches, left to right, not overlapping
GUID_PATTERN_findall(s) == findall_from(s, 0)
\* GUID_PATTERN.search(line)
GUID_PATTERN_search(s) == \E p \in 0 .. Len(s) - 1 : GuidMatchEnd(s, p) # -1

\* ANY_GUID_LINE = .*GUID:\s*CYS-[A-Z]+[_\s-]*[\w-]+ (IGNORECASE), match()
ANY_GUID_LINE_match(s) ==
    /\ "\n" \notin Range(s)
    /\ \E q \in Occurs(lower(s), <<"g", "u", "i", "d", ":">>) :
           GuidMatchEnd(s, RunEnd(s, q + 5, Space)) # -1

\* TABLE_ROW = ^\|.*\|$, match()
TABLE_ROW_match(s) ==
    Len(s) >= 2 /\ s[1] = "|" /\ s[Len(s)] = "|" /\ "\n" \notin Range(s)

\* HEADER_FOOTER = GM Confidential|Page \d+|^\s*\d+\s*$ (IGNORECASE), search()
HEADER_FOOTER_search(s) ==
    \/ Occurs(lower(s), <<"g", "m", " ", "c", "o", "n", "f", "i", "d", "e", "n", "t", "i", "a", "l">>) # {}
    \/ \E p \in Occurs(lower(s), <<"p", "a", "g", "e", " ">>) :
           p + 5 < Len(s) /\ At(s, p + 5) \in Digit
    \/ (strip(s) # <<>> /\ Range(strip(s)) \subseteq Digit)

\* \d+(\.\d+)*
OutlineNumber(t) ==
    /\ t # <<>>
    /\ Range(t) \subseteq Digit \cup {"."}
    /\ t[1] \in Digit /\ t[Len(t)] \in Digit
    /\ \A k \in 1 .. Len(t) - 1 : ~ (t[k] = "." /\ t[k + 1] = ".")

\* HEADING_WITH_GUID = ^\d+(\.\d+)*\s+.*GUID: (IGNORECASE), match()
HEADING_WITH_GUID_match(s) ==
    LET e == RunEnd(s, 0, Digit \cup {"."})
    IN  /\ e < Len(s)
        /\ At(s, e) \in Space
        /\ OutlineNumber(Slice(s, 0, e))
        /\ "\n" \notin Range(s)
        /\ \E q \in Occurs(lower(s), <<"g", "u", "i", "d", ":">>) : q >= e + 1

\* format_paragraph(lines)
format_paragraph(lines) ==
    join(<<" ">>, [k \in DOMAIN SelectSeq(lines, LAMBDA l : strip(l) # <<>>) |->
                      strip(SelectSeq(lines, LAMBDA l : strip(l) # <<>>)[k])])

REQUIREMENT == <<"R", "e", "q", "u", "i", "r", "e", "m", "e", "n", "t">>
INFORMATION == <<"I", "n", "f", "o", "r", "m", "a", "t", "i", "o", "n">>

\* "Information" if "(information only)" in line.lower() else "Requirement"
info_type_of(line) ==
    IF Occurs(lower(line), <<"(", "i", "n", "f", "o", "r", "m", "a", "t", "i", "o", "n", " ",
                             "o", "n", "l", "y", ")">>) # {}
    THEN INFORMATION ELSE REQUIREMENT

\* re.sub(r"\s+", "", g)
clean(g) == SelectSeq(g, LAMBDA c : c \notin Space)

\* extract_cadence(text): \b(\d+\.\d+\.\d+)\b searched in the text of the
\* first page; "Cadence <match>" or "Cadence Unknown"
CadenceMatchEnd(s, p) ==
    LET e1 == RunEnd(s, p, Digit)
        e2 == IF e1 < Len(s) /\ At(s, e1) = "." THEN RunEnd(s, e1 + 1, Digit) ELSE -1
        e3 == IF e2 > e1 + 1 /\ e2 < Len(s) /\ At(s, e2) = "." THEN RunEnd(s, e2 + 1, Digit) ELSE -1
    IN  IF /\ (p = 0 \/ At(s, p - 1) \notin Word)
           /\ e1 > p
           /\ e3 > e2 + 1
           /\ (e3 = Len(s) \/ At(s, e3) \notin Word)
        THEN e3 ELSE -1

CADENCE_ == <<"C", "a", "d", "e", "n", "c", "e", " ">>
CADENCE_UNKNOWN == CADENCE_ \o <<"U", "n", "k", "n", "o", "w", "n">>

extract_cadence(text) ==
    LET starts == {p \in 0 .. Len(text) - 1 : At(text, p) \in Digit /\ CadenceMatchEnd(text, p) # -1}
    IN  IF starts = {} THEN CADENCE_UNKNOWN
        ELSE CADENCE_ \o Slice(text, Min(starts), CadenceMatchEnd(text, Min(starts)))

\* ------------------------------------------------------------------------
\* Documents: pages of raw lines (page.get_text().split("\n")), drawn from
\* a pool of lines
\* ------------------------------------------------------------------------
LinePool == <<
    <<"G", "U", "I", "D", ":", " ", "C", "Y", "S", "-", "H", "_", "1">>,
    <<"c", "y", "s", "-", "h", "_", " ", "1", "/", "C", "Y", "S", "-", "S", "_", "2", " ", "(", "i", "n", "f", "o", "r", "m", "a", "t", "i", "o", "n", " ", "o", "n", "l", "y", ")">>,
    <<" ", "a", "b", "c">>,
    <<"|", "C", "Y", "S", "-", "S", "_", "2", "|">>,
    <<"P", "a", "g", "e", " ", "1", " ", "1", ".", "0", ".", "0">>,
    <<"1", ".", "1", " ", "G", "U", "I", "D", ":", " ", "C", "Y", "S", "-", "H", "_", "3">>,
    <<"|", "x", "|">>
>>

\* bounds of the documents
MaxDocLines == 3
MaxPages == 2

\* the stripped pool lines and what the compiled patterns find in them
PoolInfo ==
    [x \in DOMAIN LinePool |->
        LET raw == LinePool[x]
            ln == strip(raw)
        IN  [line |-> ln,
             blank |-> ln = <<>>,
             guids |-> GUID_PATTERN_findall(ln),
             is_guid |-> GUID_PATTERN_search(ln),
             skipped |-> \/ ANY_GUID_LINE_match(ln)
                         \/ HEADER_FOOTER_search(ln)
                         \/ TABLE_ROW_match(ln)
                         \/ HEADING_WITH_GUID_match(ln),
             header_footer |-> HEADER_FOOTER_search(ln),
             table_row |-> TABLE_ROW_match(ln),
             heading |-> HEADING_WITH_GUID_match(ln),
             info_type |-> info_type_of(ln)]]

\* page.get_text() of a page given by its raw lines
get_text(page) == join(<<"\n">>, [k \in DOMAIN page |-> LinePool[page[k]]])

FlatDocs == UNION {[1 .. n -> DOMAIN LinePool] : n \in 0 .. MaxDocLines}

\* the ways to cut n lines into m consecutive pages: the m - 1 cut positions
Cuts(n, m) == {c \in [1 .. m - 1 -> 0 .. n] : \A k \in 1 .. m - 2 : c[k] <= c[k + 1]}

PagesOf(flat, c) ==
    [k \in 1 .. Len(c) + 1 |->
        SubSeq(flat, (IF k = 1 THEN 0 ELSE c[k - 1]) + 1,
                     IF k = Len(c) + 1 THEN Len(flat) ELSE c[k])]

Docs == UNION {{PagesOf(f, c) : c \in UNION {Cuts(Len(f), m) : m \in 1 .. MaxPages}} : f \in FlatDocs}

\* ------------------------------------------------------------------------
\* extract_requirements_from, one step per loop test
\* ------------------------------------------------------------------------
VARIABLES
    pool,       \* PoolInfo, evaluated once when the patterns are compiled
    doc,        \* the pages of the document being read
    cadence,    \* cadence = extract_cadence(doc[0].get_text())
    page_no,    \* number of pages entered by "for page in doc"
    i,          \* index of the outer while loop
    j,          \* index of the inner while loop
    details,    \* detail lines of the open block
    rows,       \* the records appended so far
    epc         \* "page", "outer", "inner", "close" or "done"

evars == <<pool, doc, cadence, page_no, i, j, details, rows, epc>>

\* the variables of save_to_excel
VARIABLES
    file,       \* the workbook on disk: [exists, header, body]
    wb,         \* the workbook save_to_excel works on
    todo,       \* the rows the loop has not merged yet
    loc,        \* guid, info_type, detail, cadence, r, c, prev, new_val of the last pass
    calls,      \* number of save_to_excel calls that returned
    mpc         \* "idle" or "rows"

mvars == <<file, wb, todo, loc, calls, mpc>>

\* the variables of a call of highlight_diff and of the calls on its result
VARIABLES
    hd_old,     \* the argument old
    hd_new,     \* the argument new
    hd_out,     \* the value returned
    hd_n,       \* number of calls that returned
    hd_pc       \* "args" or "returned"

dvars == <<hd_old, hd_new, hd_out, hd_n, hd_pc>>

\* the worker threads started by the button, one per click
VARIABLES
    xlsx,       \* the workbook on disk at the path the runs were given
    thr         \* per thread: pc, all_rows, and wb once it is loaded

tvars == <<xlsx, thr>>

\* the variables of run_extraction
VARIABLES
    files,      \* files = file_list.get(0, END), the documents themselves
    idx,        \* number of files the loop has finished
    all_rows,   \* all_rows
    shown,      \* the files named by messagebox.showerror("PDF Error", ...)
    update_var, \* update_var.get()
    table0,     \* the workbook under xlsx_path when the run started
    rpc         \* "files", "extract", "returned", "raised" or "abandoned"

rvars == <<files, idx, all_rows, shown, update_var, table0, rpc>>

\* the variables of the calls of save_to_excel of mmulti-v3.py
VARIABLES
    v3_file,    \* the workbook on disk at output_path
    v3_rows,    \* the argument rows of the last call
    v3_n        \* number of calls that returned

xvars == <<v3_file, v3_rows, v3_n>>

\* the variables of extract_valid_requirements_only of python_extract_pdf.py
VARIABLES
    pdf_doc,            \* the pages of the document
    pdf_page,           \* number of pages entered by "for page in doc"
    pdf_i,              \* i of "for i, line in enumerate(lines)"
    current_id,         \* <<>> for None
    current_details,
    cr_number,
    pdf_info_type,      \* info_type
    last_line_was_guid,
    requirements,
    pdf_pc              \* "page", "line" or "done"

pvars == <<pdf_doc, pdf_page, pdf_i, current_id, current_details, cr_number,
           pdf_info_type, last_line_was_guid, requirements, pdf_pc>>

\* the variables a step of the extraction or of the merge leaves alone
others == <<dvars, tvars, rvars, xvars, pvars>>

\* lines = [ln.strip() for ln in page.get_text().split("\n") if ln.strip()],
\* kept as indices into LinePool
page_lines(page) == SelectSeq(page, LAMBDA x : ~ pool[x].blank)

\* lines of the page being processed
lines == page_lines(doc[page_no])

ExtractInit ==
    /\ pool = PoolInfo
    /\ doc \in Docs
    /\ cadence = extract_cadence(get_text(doc[1]))
    /\ page_no = 0
    /\ i = 0
    /\ j = 0
    /\ details = <<>>
    /\ rows = <<>>
    /\ epc = "page"

\* for page in doc: lines = ...; i = 0
PageNext ==
    /\ epc = "page"
    /\ page_no < Len(doc)
    /\ page_no' = page_no + 1
    /\ i' = 0
    /\ epc' = "outer"
    /\ UNCHANGED <<pool, doc, cadence, j, details, rows>>
    /\ UNCHANGED <<mvars, others>>

\* return rows, cadence
Return ==
    /\ epc = "page"
    /\ page_no = Len(doc)
    /\ epc' = "done"
    /\ UNCHANGED <<pool, doc, cadence, page_no, i, j, details, rows>>
    /\ UNCHANGED <<mvars, others>>

\* guids = GUID_PATTERN.findall(line); if guids: details = []; j = i + 1
OuterOpen ==
    /\ epc = "outer"
    /\ i < Len(lines)
    /\ pool[At(lines, i)].guids # <<>>
    /\ details' = <<>>
    /\ j' = i + 1
    /\ epc' = "inner"
    /\ UNCHANGED <<pool, doc, cadence, page_no, i, rows>>
    /\ UNCHANGED <<mvars, others>>

\* variant: the else branch leaves the index where it is
OuterSkipStays ==
    /\ epc = "outer"
    /\ i < Len(lines)
    /\ pool[At(lines, i)].guids = <<>>
    /\ i' = i
    /\ UNCHANGED <<pool, doc, cadence, page_no, j, details, rows, epc>>
    /\ UNCHANGED <<mvars, others>>

\* else: i += 1
OuterSkip ==
    /\ epc = "outer"
    /\ i < Len(lines)
    /\ pool[At(lines, i)].guids = <<>>
    /\ i' = i + 1
    /\ UNCHANGED <<pool, doc, cadence, page_no, j, details, rows, epc>>
    /\ UNCHANGED <<mvars, others>>

\* while i < len(lines) is false: the page is finished
OuterEnd ==
    /\ epc = "outer"
    /\ i >= Len(lines)
    /\ epc' = "page"
    /\ UNCHANGED <<pool, doc, cadence, page_no, i, j, details, rows>>
    /\ UNCHANGED <<mvars, others>>

\* if GUID_PATTERN.search(nxt): break
InnerBreak ==
    /\ epc = "inner"
    /\ j < Len(lines)
    /\ pool[At(lines, j)].is_guid
    /\ epc' = "close"
    /\ UNCHANGED <<pool, doc, cadence, page_no, i, j, details, rows>>
    /\ UNCHANGED <<mvars, others>>

\* the four "not ..." hold: details.append(nxt); j += 1
InnerAppend ==
    /\ epc = "inner"
    /\ j < Len(lines)
    /\ ~ pool[At(lines, j)].is_guid
    /\ ~ pool[At(lines, j)].skipped
    /\ details' = Append(details, pool[At(lines, j)].line)
    /\ j' = j + 1
    /\ UNCHANGED <<pool, doc, cadence, page_no, i, rows, epc>>
    /\ UNCHANGED <<mvars, others>>

\* one of the four patterns matches: j += 1 only
InnerSkip ==
    /\ epc = "inner"
    /\ j < Len(lines)
    /\ ~ pool[At(lines, j)].is_guid
    /\ pool[At(lines, j)].skipped
    /\ j' = j + 1
    /\ UNCHANGED <<pool, doc, cadence, page_no, i, details, rows, epc>>
    /\ UNCHANGED <<mvars, others>>

\* while j < len(lines) is false
InnerEnd ==
    /\ epc = "inner"
    /\ j >= Len(lines)
    /\ epc' = "close"
    /\ UNCHANGED <<pool, doc, cadence, page_no, i, j, details, rows>>
    /\ UNCHANGED <<mvars, others>>

\* variant: a block yields one record, for the first identifier of its
\* opening line
block_rows_first(opener, dets, cad) ==
    <<<<clean(pool[opener].guids[1]), pool[opener].info_type,
        format_paragraph(dets), cad, <<>> >>>>

\* the records of a block: one per identifier of its opening line
block_rows(opener, dets, cad) ==
    [k \in DOMAIN pool[opener].guids |->
        <<clean(pool[opener].guids[k]), pool[opener].info_type,
          format_paragraph(dets), cad, <<>> >>]

\* if details: rows.append(...) for g in guids; i = j
CloseEmit ==
    /\ epc = "close"
    /\ details # <<>>
    /\ rows' = rows \o block_rows(At(lines, i), details, cadence)
    /\ i' = j
    /\ epc' = "outer"
    /\ UNCHANGED <<pool, doc, cadence, page_no, j, details>>
    /\ UNCHANGED <<mvars, others>>

\* variant: a block closed with an empty buffer appends its records all the same
CloseDropEmits ==
    /\ epc = "close"
    /\ details = <<>>
    /\ rows' = rows \o block_rows(At(lines, i), details, cadence)
    /\ i' = j
    /\ epc' = "outer"
    /\ UNCHANGED <<pool, doc, cadence, page_no, j, details>>
    /\ UNCHANGED <<mvars, others>>

\* details is empty: i = j
CloseDrop ==
    /\ epc = "close"
    /\ details = <<>>
    /\ i' = j
    /\ epc' = "outer"
    /\ UNCHANGED <<pool, doc, cadence, page_no, j, details, rows>>
    /\ UNCHANGED <<mvars, others>>


\* ------------------------------------------------------------------------
\* save_to_excel: the workbook is the header row and the rows under it; a
\* cell is its text, <<>> for an empty cell (None and "" are not told apart
\* by the code: "cell.value or ''", "in (None, '')")
\* ------------------------------------------------------------------------
REQ_ID == <<"R", "e", "q", "u", "i", "r", "e", "m", "e", "n", "t", " ", "I", "D">>
REQ_INFO == <<"R", "e", "q", "u", "i", "r", "e", "m", "e", "n", "t", "/", "I", "n", "f", "o", "r", "m", "a", "t", "i", "o", "n">>
HSE_SERVICE == <<"H", "S", "E", " ", "S", "e", "r", "v", "i", "c", "e">>

CADENCE_1 == CADENCE_ \o <<"1", ".", "0", ".", "0">>
CADENCE_2 == CADENCE_ \o <<"2", ".", "0", ".", "0">>

\* the value of ws.cell(r, c); the header is row 1 of the sheet
cell_value(body, r, c) ==
    IF r - 1 \in DOMAIN body /\ c \in DOMAIN body[r - 1] THEN body[r - 1][c] ELSE <<>>

\* ws.cell(r, c).value = v; the sheet grows to hold the cell
set_cell(body, r, c, v) ==
    LET grown == [k \in 1 .. (IF r - 1 > Len(body) THEN r - 1 ELSE Len(body)) |->
                     IF k \in DOMAIN body THEN body[k] ELSE <<>>]
        row == grown[r - 1]
        wide == [k \in 1 .. (IF c > Len(row) THEN c ELSE Len(row)) |->
                     IF k = c THEN v ELSE IF k \in DOMAIN row THEN row[k] ELSE <<>>]
    IN  [grown EXCEPT ![r - 1] = wide]

\* ws.max_row
max_row(body) == Len(body) + 1

\* col_index = {h: i + 1 for i, h in enumerate(header)}: the last column of a name
col_index(header, h) == Max({k \in DOMAIN header : header[k] = h})

\* guid_row = {ws.cell(r, 1).value: r for r in range(2, ws.max_row + 1)}
load_guid_row(body) ==
    [g \in {cell_value(body, r, 1) : r \in 2 .. max_row(body)} |->
        Max({r \in 2 .. max_row(body) : cell_value(body, r, 1) = g})]

RECURSIVE add_cadences_always(_, _)
\* variant: a column is appended for every row, without "not in header"
add_cadences_always(header, rs) ==
    IF rs = <<>> THEN header
    ELSE add_cadences_always(Append(header, rs[1][4]), Tail(rs))

RECURSIVE add_cadences(_, _)
\* for *_, cadence, _ in rows: if cadence not in header: header.append(cadence)
add_cadences(header, rs) ==
    IF rs = <<>> THEN header
    ELSE add_cadences(IF rs[1][4] \in Range(header) THEN header ELSE Append(header, rs[1][4]),
                      Tail(rs))

\* if "HSE Service" not in header: header.append("HSE Service")
add_service(header) ==
    IF HSE_SERVICE \in Range(header) THEN header ELSE Append(header, HSE_SERVICE)

\* variant: the incoming text always replaces the cell
new_val_verbatim(prev, detail) == detail

\* new_val = detail if prev == "" else highlight_diff(prev, detail) if prev != detail else prev
new_val(prev, detail) ==
    IF prev = <<>> THEN detail
    ELSE IF prev # detail THEN highlight_diff(prev, detail)
    ELSE prev

\* variant: no identifier is ever found in guid_row
is_known_never(guid_row, guid) == FALSE

\* if guid in guid_row
is_known(guid_row, guid) == guid \in DOMAIN guid_row

\* r = guid_row[guid], or r = ws.max_row + 1 for a new identifier
row_of(w, guid) == IF is_known(w.guid_row, guid) THEN w.guid_row[guid] ELSE max_row(w.body) + 1

\* variant: the identifier and the type tag are written for every row
with_identity_always(w, r, guid, info_type) ==
    set_cell(set_cell(w.body, r, col_index(w.header, REQ_ID), guid),
             r, col_index(w.header, REQ_INFO), info_type)

\* the else branch: the identifier and the type tag are written for a new row only
with_identity(w, r, guid, info_type) ==
    IF is_known(w.guid_row, guid) THEN w.body
    ELSE set_cell(set_cell(w.body, r, col_index(w.header, REQ_ID), guid),
                  r, col_index(w.header, REQ_INFO), info_type)

\* if ws.cell(r, service_col).value in (None, ""): ws.cell(r, service_col).value = service
with_service(body, r, service_col, service) ==
    IF cell_value(body, r, service_col) = <<>> THEN set_cell(body, r, service_col, service)
    ELSE body

\* one pass of "for guid, info_type, detail, cadence, service in rows"
merge_row(w, d) ==
    LET r == row_of(w, d[1])
        body1 == with_identity(w, r, d[1], d[2])
        c == col_index(w.header, d[4])
        body2 == set_cell(body1, r, c, new_val(cell_value(body1, r, c), d[3]))
    IN  [header |-> w.header,
         body |-> with_service(body2, r, col_index(w.header, HSE_SERVICE), d[5]),
         guid_row |-> IF is_known(w.guid_row, d[1]) THEN w.guid_row
                      ELSE (d[1] :> r) @@ w.guid_row]

\* the local variables of save_to_excel after that pass
locals_after(w, d) ==
    LET r == row_of(w, d[1])
        c == col_index(w.header, d[4])
        prev == cell_value(with_identity(w, r, d[1], d[2]), r, c)
    IN  [guid |-> d[1], info_type |-> d[2], detail |-> d[3], cadence |-> d[4],
         r |-> r, c |-> c, prev |-> prev, new_val |-> new_val(prev, d[3])]

RECURSIVE merge_rows(_, _)
merge_rows(w, rs) == IF rs = <<>> THEN w ELSE merge_rows(merge_row(w, rs[1]), Tail(rs))

\* the workbook save_to_excel starts from, with the header completed
open_workbook(f, rs, updating) ==
    LET load == updating /\ f.exists
        header0 == IF load THEN f.header ELSE <<REQ_ID, REQ_INFO>>
        body0 == IF load THEN f.body ELSE <<>>
    IN  [header |-> add_service(add_cadences(header0, rs)),
         body |-> body0,
         guid_row |-> IF load THEN load_guid_row(f.body) ELSE <<>>]

\* wb.save(out_path): every row holds a cell for every column
saved(w) ==
    [exists |-> TRUE,
     header |-> w.header,
     body |-> [k \in DOMAIN w.body |->
                  [c \in 1 .. Len(w.header) |-> cell_value(w.body, k + 1, c)]]]

\* save_to_excel(rows, out_path, updating): the workbook it leaves on disk
save_to_excel(f, rs, updating) == saved(merge_rows(open_workbook(f, rs, updating), rs))

\* ------------------------------------------------------------------------
\* The rows handed to save_to_excel
\* ------------------------------------------------------------------------
\* identifiers as GUID_PATTERN finds them in a line
RAW_GUID == <<"C", "Y", "S", "-", "H", "_", " ", "1">>
RAW_GUID_LOWER == <<"c", "y", "s", "-", "h", "_", " ", "1">>

TEXT_1 == <<"a", "b", "c">>
TEXT_2 == <<"a", "b", "c", " ", "d", "e", "f">>

\* bounds of the merge
MaxRows == 2
MaxCalls == 2

\* [guid, info_type, detail, cadence, service] as extract_requirements_from
\* appends them (service is always ""): an identifier with its text in two
\* revisions, the same block tagged information-only with a longer text, and
\* the identifier found in lower case
Drafts ==
    {<<clean(RAW_GUID), REQUIREMENT, TEXT_1, CADENCE_1, <<>> >>,
     <<clean(RAW_GUID), REQUIREMENT, TEXT_1, CADENCE_2, <<>> >>,
     <<clean(RAW_GUID), INFORMATION, TEXT_2, CADENCE_1, <<>> >>,
     <<clean(RAW_GUID_LOWER), REQUIREMENT, TEXT_1, CADENCE_1, <<>> >>}

RowLists == UNION {[1 .. n -> Drafts] : n \in 1 .. MaxRows}

NoFile == [exists |-> FALSE, header |-> <<>>, body |-> <<>>]
NoWorkbook == [header |-> <<>>, body |-> <<>>, guid_row |-> <<>>]
\* no pass of the loop has run in this call (r and c are 1-based in the sheet)
NoLocals == [guid |-> <<>>, info_type |-> <<>>, detail |-> <<>>, cadence |-> <<>>,
             r |-> 0, c |-> 0, prev |-> <<>>, new_val |-> <<>>]

MergeInit ==
    /\ file = NoFile
    /\ wb = NoWorkbook
    /\ todo = <<>>
    /\ loc = NoLocals
    /\ calls = 0
    /\ mpc = "idle"

\* save_to_excel(rows, out_path, updating) up to the loop over the rows.
\* A table is written fresh once (auto_filename gives every fresh run a new
\* path) and later only updated.
Begin(rs, updating) ==
    /\ mpc = "idle"
    /\ calls < MaxCalls
    /\ updating \/ ~ file.exists
    /\ wb' = open_workbook(file, rs, updating)
    /\ todo' = rs
    /\ loc' = NoLocals
    /\ mpc' = "rows"
    /\ UNCHANGED <<file, calls>>
    /\ UNCHANGED <<evars, others>>

\* variant: the workbook is written after every row
MergeRowSaves ==
    /\ mpc = "rows"
    /\ todo # <<>>
    /\ wb' = merge_row(wb, Head(todo))
    /\ loc' = locals_after(wb, Head(todo))
    /\ todo' = Tail(todo)
    /\ file' = saved(merge_row(wb, Head(todo)))
    /\ UNCHANGED <<calls, mpc>>
    /\ UNCHANGED <<evars, others>>

\* the loop body for the next row
MergeRow ==
    /\ mpc = "rows"
    /\ todo # <<>>
    /\ wb' = merge_row(wb, Head(todo))
    /\ loc' = locals_after(wb, Head(todo))
    /\ todo' = Tail(todo)
    /\ UNCHANGED <<file, calls, mpc>>
    /\ UNCHANGED <<evars, others>>

\* wb.save(out_path) and return
Save ==
    /\ mpc = "rows"
    /\ todo = <<>>
    /\ file' = saved(wb)
    /\ wb' = NoWorkbook
    /\ loc' = NoLocals
    /\ calls' = calls + 1
    /\ mpc' = "idle"
    /\ UNCHANGED todo
    /\ UNCHANGED <<evars, others>>

\* ------------------------------------------------------------------------
\* highlight_diff called on texts, and called again on what it returned as
\* save_to_excel does when a later run finds the marked cell (prev) and the
\* same incoming text
\* ------------------------------------------------------------------------
\* tokens: a short word, two words that differ in their last letter
\* (SequenceMatcher ratio 0.75), and a one-letter word
TokenPool ==
    {<<"a", "b">>, <<"a", "b", "c", "d">>, <<"a", "b", "c", "e">>, <<"x">>}

\* bounds of the texts and of the calls
MaxTokens == 2
MaxPasses == 2

\* texts of up to MaxTokens tokens separated by one space
Texts == {join(<<" ">>, ts) : ts \in UNION {[1 .. n -> TokenPool] : n \in 0 .. MaxTokens}}

DiffInit ==
    /\ hd_old \in Texts
    /\ hd_new \in Texts
    /\ hd_out = <<>>
    /\ hd_n = 0
    /\ hd_pc = "args"

DiffIdle ==
    /\ hd_old = <<>>
    /\ hd_new = <<>>
    /\ hd_out = <<>>
    /\ hd_n = 0
    /\ hd_pc = "returned"

\* highlight_diff(old, new)
Diff ==
    /\ hd_pc = "args"
    /\ hd_out' = highlight_diff(hd_old, hd_new)
    /\ hd_n' = 1
    /\ hd_pc' = "returned"
    /\ UNCHANGED <<hd_old, hd_new>>
    /\ UNCHANGED <<evars, mvars, tvars, rvars, xvars, pvars>>

\* highlight_diff(prev, detail) with prev the value returned before
Rediff ==
    /\ hd_pc = "returned"
    /\ hd_n \in 1 .. MaxPasses - 1
    /\ hd_old' = hd_out
    /\ hd_out' = highlight_diff(hd_out, hd_new)
    /\ hd_n' = hd_n + 1
    /\ UNCHANGED <<hd_new, hd_pc>>
    /\ UNCHANGED <<evars, mvars, tvars, rvars, xvars, pvars>>

\* ------------------------------------------------------------------------
\* The button: command=lambda: threading.Thread(target=run_extraction,
\* daemon=True).start(). Every click starts a thread; the threads that reach
\* save_to_excel in update mode with the same path share the file on disk.
\* A thread touches the file twice: load_workbook and wb.save.
\* ------------------------------------------------------------------------
MaxThreads == 2
Threads == 1 .. MaxThreads

NoThread == [pc |-> "none", all_rows |-> <<>>, wb |-> NoWorkbook]

ThreadsInit ==
    /\ xlsx \in {NoFile} \cup {save_to_excel(NoFile, <<d>>, FALSE) : d \in Drafts}
    /\ thr = [t \in Threads |-> NoThread]

ThreadsIdle ==
    /\ xlsx = NoFile
    /\ thr = <<>>

\* a click: the thread runs the loop over the files and holds all_rows
Click(t, rs) ==
    /\ thr[t].pc = "none"
    /\ thr' = [thr EXCEPT ![t] = [pc |-> "collected", all_rows |-> rs, wb |-> NoWorkbook]]
    /\ UNCHANGED xlsx
    /\ UNCHANGED <<evars, mvars, dvars, rvars, xvars, pvars>>

\* save_to_excel up to the loop: is_file_locked(out_path) is False (no other
\* program holds the file), the workbook is loaded and its header completed
Load(t) ==
    /\ thr[t].pc = "collected"
    /\ thr' = [thr EXCEPT ![t].pc = "loaded",
                          ![t].wb = open_workbook(xlsx, thr[t].all_rows, TRUE)]
    /\ UNCHANGED xlsx
    /\ UNCHANGED <<evars, mvars, dvars, rvars, xvars, pvars>>

\* the loop over the rows on the thread's own workbook, then wb.save(out_path)
Store(t) ==
    /\ thr[t].pc = "loaded"
    /\ xlsx' = saved(merge_rows(thr[t].wb, thr[t].all_rows))
    /\ thr' = [thr EXCEPT ![t].pc = "returned"]
    /\ UNCHANGED <<evars, mvars, dvars, rvars, xvars, pvars>>

\* ------------------------------------------------------------------------
\* run_extraction: the loop over the files, then one call of save_to_excel
\* ------------------------------------------------------------------------
MaxFiles == 2

\* a one-block document without a cadence, the same block under a page
\* header with the cadence, and a two-page document: a block opened by a
\* line with two identifiers, then a block with a table row in it, closed
\* by an identifier line that opens a block without text
RunDocs ==
    {<< <<1, 3>> >>, << <<5, 1, 3>> >>, << <<2, 3>>, <<6, 7, 3, 1>> >>}

ID_HEADER == <<"I", "D">>

\* the workbooks the user can choose in update mode: one written by an
\* earlier run, and one whose header row does not hold "Requirement ID"
Existing ==
    {save_to_excel(NoFile, << <<clean(RAW_GUID), REQUIREMENT, TEXT_1, CADENCE_1, <<>> >> >>, FALSE),
     [exists |-> TRUE,
      header |-> <<ID_HEADER, REQ_INFO, CADENCE_1, HSE_SERVICE>>,
      body |-> << <<clean(RAW_GUID), REQUIREMENT, TEXT_1, <<>> >> >>]}

RunInit ==
    /\ pool = PoolInfo
    /\ doc = <<>>
    /\ cadence = <<>>
    /\ page_no = 0
    /\ i = 0
    /\ j = 0
    /\ details = <<>>
    /\ rows = <<>>
    /\ epc = "done"
    /\ files \in UNION {[1 .. n -> RunDocs] : n \in 1 .. MaxFiles}
    /\ idx = 0
    /\ all_rows = <<>>
    /\ shown = <<>>
    /\ update_var \in BOOLEAN
    /\ table0 \in (IF update_var THEN Existing ELSE {NoFile})
    /\ rpc = "files"
    /\ file = table0
    /\ wb = NoWorkbook
    /\ todo = <<>>
    /\ loc = NoLocals
    /\ calls = 0
    /\ mpc = "idle"

RunIdle ==
    /\ files = <<>>
    /\ idx = 0
    /\ all_rows = <<>>
    /\ shown = <<>>
    /\ update_var = FALSE
    /\ table0 = NoFile
    /\ rpc = "returned"

\* for idx, pdf in enumerate(files, 1): extract_requirements_from(pdf) is
\* entered: doc = fitz.open(pdf_path); cadence = ...; rows = []
Open ==
    /\ rpc = "files"
    /\ idx < Len(files)
    /\ mpc = "idle"
    /\ calls = 0
    /\ doc' = files[idx + 1]
    /\ cadence' = extract_cadence(get_text(files[idx + 1][1]))
    /\ page_no' = 0
    /\ i' = 0
    /\ j' = 0
    /\ details' = <<>>
    /\ rows' = <<>>
    /\ epc' = "page"
    /\ rpc' = "extract"
    /\ UNCHANGED <<pool, files, idx, all_rows, shown, update_var, table0>>
    /\ UNCHANGED <<mvars, dvars, tvars, xvars, pvars>>

\* variant: the rows appended before the exception are returned
RaiseKeepsRows ==
    /\ rpc = "extract"
    /\ epc \in {"page", "outer", "inner", "close"}
    /\ shown' = Append(shown, idx + 1)
    /\ cadence' = CADENCE_UNKNOWN
    /\ page_no' = 0
    /\ i' = 0
    /\ j' = 0
    /\ details' = <<>>
    /\ epc' = "done"
    /\ UNCHANGED <<pool, doc, rows, files, idx, all_rows, update_var, table0, rpc>>
    /\ UNCHANGED <<mvars, dvars, tvars, xvars, pvars>>

\* except Exception as exc: messagebox.showerror(...); return [], "Cadence
\* Unknown". The exception can come from any statement of the try block.
Raise ==
    /\ rpc = "extract"
    /\ epc \in {"page", "outer", "inner", "close"}
    /\ shown' = Append(shown, idx + 1)
    /\ rows' = <<>>
    /\ cadence' = CADENCE_UNKNOWN
    /\ page_no' = 0
    /\ i' = 0
    /\ j' = 0
    /\ details' = <<>>
    /\ epc' = "done"
    /\ UNCHANGED <<pool, doc, files, idx, all_rows, update_var, table0, rpc>>
    /\ UNCHANGED <<mvars, dvars, tvars, xvars, pvars>>

\* rows, _ = extract_requirements_from(pdf); all_rows.extend(rows)
Collect ==
    /\ rpc = "extract"
    /\ epc = "done"
    /\ all_rows' = all_rows \o rows
    /\ idx' = idx + 1
    /\ rpc' = "files"
    /\ UNCHANGED <<files, shown, update_var, table0>>
    /\ UNCHANGED <<evars, mvars, dvars, tvars, xvars, pvars>>

\* if not all_rows: ...; return
NoData ==
    /\ rpc = "files"
    /\ idx = Len(files)
    /\ all_rows = <<>>
    /\ rpc' = "returned"
    /\ UNCHANGED <<files, idx, all_rows, shown, update_var, table0>>
    /\ UNCHANGED <<evars, mvars, dvars, tvars, xvars, pvars>>

\* update mode: the file dialog is closed without a path ("Update
\* cancelled."), or the locked-file dialog of save_to_excel is cancelled
Cancel ==
    /\ rpc = "files"
    /\ idx = Len(files)
    /\ all_rows # <<>>
    /\ update_var
    /\ mpc = "idle"
    /\ calls = 0
    /\ rpc' = "returned"
    /\ UNCHANGED <<files, idx, all_rows, shown, update_var, table0>>
    /\ UNCHANGED <<evars, mvars, dvars, tvars, xvars, pvars>>

\* save_to_excel(all_rows, xlsx_path, updating=update_var.get())
RunBegin ==
    /\ rpc = "files"
    /\ idx = Len(files)
    /\ all_rows # <<>>
    /\ calls = 0
    /\ Begin(all_rows, update_var)

\* the keys the pass for row d looks up in col_index are there:
\* "Requirement ID" and "Requirement/Information" are looked up for a new
\* identifier only; the cadence and "HSE Service" were appended to the header
has_keys(w, d) ==
    is_known(w.guid_row, d[1]) \/ {REQ_ID, REQ_INFO} \subseteq Range(w.header)

\* a pass of the loop that raises no KeyError
MergeRowOk ==
    /\ mpc = "rows"
    /\ todo # <<>>
    /\ has_keys(wb, Head(todo))
    /\ MergeRow

\* col_index["Requirement ID"] raises KeyError: the thread ends, nothing is saved
MergeRaises ==
    /\ mpc = "rows"
    /\ todo # <<>>
    /\ ~ has_keys(wb, Head(todo))
    /\ wb' = NoWorkbook
    /\ todo' = <<>>
    /\ loc' = NoLocals
    /\ mpc' = "idle"
    /\ rpc' = "raised"
    /\ UNCHANGED <<file, calls>>
    /\ UNCHANGED <<files, idx, all_rows, shown, update_var, table0>>
    /\ UNCHANGED <<evars, dvars, tvars, xvars, pvars>>

\* the window is closed while the daemon thread runs: the thread ends where
\* it is, with its locals
Abandon ==
    /\ rpc \in {"files", "extract"}
    /\ calls = 0
    /\ rpc' = "abandoned"
    /\ epc' = "done"
    /\ wb' = NoWorkbook
    /\ todo' = <<>>
    /\ loc' = NoLocals
    /\ mpc' = "idle"
    /\ UNCHANGED <<file, calls>>
    /\ UNCHANGED <<pool, doc, cadence, page_no, i, j, details, rows>>
    /\ UNCHANGED <<files, idx, all_rows, shown, update_var, table0>>
    /\ UNCHANGED <<dvars, tvars, xvars, pvars>>

\* ------------------------------------------------------------------------
\* save_to_excel of mmulti-v3.py. It differs from the one of final.py in the
\* key of guid_row (whitespace removed), the order in which cadence columns
\* are appended (sorted), the fixed columns 1 and 2 of a new row, and the
\* service cell, which is written in every pass. highlight_differences is
\* the same expression as highlight_diff, and the value stored in the
\* cadence cell is the one new_val gives.
\* ------------------------------------------------------------------------
\* the characters of the texts in the order of their code points
CodePoints ==
    <<"\n", " ", "(", ")", "*", "-", ".", "/">>
    \o <<"0", "1", "2", "3", "4", "5", "6", "7", "8", "9", ":", "?">> \o Uppers
    \o <<"^", "_">> \o Lowers \o <<"|">>

ord(c) == CHOOSE k \in DOMAIN CodePoints : CodePoints[k] = c

\* a < b for str
str_lt(a, b) ==
    \E k \in 1 .. Len(b) :
        /\ SubSeq(a, 1, Min({k - 1, Len(a)})) = SubSeq(b, 1, k - 1)
        /\ (Len(a) < k \/ ord(a[k]) < ord(b[k]))

\* sorted(set(...))
RECURSIVE sorted(_)
sorted(S) ==
    IF S = {} THEN <<>>
    ELSE <<CHOOSE x \in S : \A y \in S \ {x} : str_lt(x, y)>>
         \o sorted(S \ {CHOOSE x \in S : \A y \in S \ {x} : str_lt(x, y)})

\* for cadence in cadences_in_rows: if cadence not in header: header.append(cadence)
RECURSIVE v3_add_cadences(_, _)
v3_add_cadences(header, cs) ==
    IF cs = <<>> THEN header
    ELSE v3_add_cadences(IF cs[1] \in Range(header) THEN header ELSE Append(header, cs[1]),
                         Tail(cs))

\* guid_row = {re.sub(r"\s+", "", str(ws.cell(r, 1).value)): r for r in ...}
v3_load_guid_row(body) ==
    [g \in {clean(cell_value(body, r, 1)) : r \in 2 .. max_row(body)} |->
        Max({r \in 2 .. max_row(body) : clean(cell_value(body, r, 1)) = g})]

\* the workbook and guid_row before the loop
v3_open_workbook(f, rs, update_existing) ==
    LET load == update_existing /\ f.exists
    IN  [header |-> add_service(v3_add_cadences(
                        IF load THEN f.header ELSE <<REQ_ID, REQ_INFO>>,
                        sorted({rs[k][4] : k \in DOMAIN rs}))),
         body |-> IF load THEN f.body ELSE <<>>,
         guid_row |-> IF load THEN v3_load_guid_row(f.body) ELSE <<>>]

\* one pass of "for guid, info_type, detail, cadence, service in rows"
v3_merge_row(w, d) ==
    LET known == clean(d[1]) \in DOMAIN w.guid_row
        r == IF known THEN w.guid_row[clean(d[1])] ELSE max_row(w.body) + 1
        body1 == IF known THEN w.body ELSE set_cell(set_cell(w.body, r, 1, d[1]), r, 2, d[2])
        c == col_index(w.header, d[4])
        body2 == set_cell(body1, r, c, new_val(cell_value(body1, r, c), d[3]))
    IN  [header |-> w.header,
         body |-> set_cell(body2, r, col_index(w.header, HSE_SERVICE), d[5]),
         guid_row |-> IF known THEN w.guid_row ELSE (clean(d[1]) :> r) @@ w.guid_row]

RECURSIVE v3_merge_rows(_, _)
v3_merge_rows(w, rs) ==
    IF rs = <<>> THEN w ELSE v3_merge_rows(v3_merge_row(w, rs[1]), Tail(rs))

\* save_to_excel(rows, output_path, update_existing): the workbook on disk
v3_save_to_excel(f, rs, update_existing) ==
    saved(v3_merge_rows(v3_open_workbook(f, rs, update_existing), rs))

\* a service the user typed into the workbook
SERVICE_NOTE == <<"x">>

\* the workbook before the first call: none, or one written by an earlier
\* run in which the user has filled in the service of the row
V3Init ==
    /\ v3_file \in {NoFile,
                    [exists |-> TRUE,
                     header |-> <<REQ_ID, REQ_INFO, CADENCE_1, HSE_SERVICE>>,
                     body |-> << <<clean(RAW_GUID), REQUIREMENT, TEXT_1, SERVICE_NOTE>> >>]}
    /\ v3_rows = <<>>
    /\ v3_n = 0

V3Idle ==
    /\ v3_file = NoFile
    /\ v3_rows = <<>>
    /\ v3_n = 0

\* a call of save_to_excel: a workbook is created once and updated afterwards
V3Save(rs, update_existing) ==
    /\ v3_n < MaxCalls
    /\ update_existing \/ ~ v3_file.exists
    /\ v3_file' = v3_save_to_excel(v3_file, rs, update_existing)
    /\ v3_rows' = rs
    /\ v3_n' = v3_n + 1
    /\ UNCHANGED <<evars, mvars, dvars, tvars, rvars, pvars>>

\* ------------------------------------------------------------------------
\* extract_valid_requirements_only of python_extract_pdf.py, one step per
\* line. The block in work (current_id, current_details) lives across pages.
\* ------------------------------------------------------------------------
GUID_CYS == <<"G", "U", "I", "D", ":", " ", "C", "Y", "S", "-">>

\* the line is removed as a header or footer: re.search(r"GM Confidential|
\* CYS2407.*\.pdf|Page \d+ of \d+|\b\d{4}-\d{2}-\d{2}\b", line) or
\* re.match(r"^\s*\d+\s*$", line)
pdf_header_footer(s) ==
    \/ Occurs(s, <<"G", "M", " ", "C", "o", "n", "f", "i", "d", "e", "n", "t", "i", "a", "l">>) # {}
    \/ \E p \in Occurs(s, <<"C", "Y", "S", "2", "4", "0", "7">>) :
           \E q \in Occurs(s, <<".", "p", "d", "f">>) : q >= p + 7
    \/ \E p \in Occurs(s, <<"P", "a", "g", "e", " ">>) :
           /\ RunEnd(s, p + 5, Digit) > p + 5
           /\ startswith(Slice(s, RunEnd(s, p + 5, Digit), Len(s)), <<" ", "o", "f", " ">>)
           /\ RunEnd(s, RunEnd(s, p + 5, Digit) + 4, Digit) > RunEnd(s, p + 5, Digit) + 4
    \/ \E p \in 0 .. Len(s) - 10 :
           /\ \A q \in {0, 1, 2, 3, 5, 6, 8, 9} : At(s, p + q) \in Digit
           /\ At(s, p + 4) = "-" /\ At(s, p + 7) = "-"
           /\ (p = 0 \/ At(s, p - 1) \notin Word)
           /\ (p + 10 = Len(s) \/ At(s, p + 10) \notin Word)
    \/ (strip(s) # <<>> /\ \A k \in DOMAIN strip(s) : strip(s)[k] \in Digit)

\* lines = [line for line in page.get_text().split('\n') if not ...], as
\* indices into LinePool
pdf_lines(page) == SelectSeq(page, LAMBDA x : ~ pdf_header_footer(LinePool[x]))

\* "GUID: CYS-" in line
is_guid_line(s) == Occurs(s, GUID_CYS) # {}

\* re.search(r"(CYS-[\w\-]+)", line).group(1), <<>> when there is no match
pdf_id(s) ==
    LET starts == {p \in Occurs(s, <<"C", "Y", "S", "-">>) :
                      RunEnd(s, p + 4, Word \cup {"-"}) > p + 4}
    IN  IF starts = {} THEN <<>>
        ELSE Slice(s, Min(starts), RunEnd(s, Min(starts) + 4, Word \cup {"-"}))

\* re.search(r"CR\s+\d+", line).group(0), "" when there is no match
pdf_cr(s) ==
    LET starts == {p \in Occurs(s, <<"C", "R">>) :
                      /\ RunEnd(s, p + 2, Space) > p + 2
                      /\ RunEnd(s, RunEnd(s, p + 2, Space), Digit) > RunEnd(s, p + 2, Space)}
    IN  IF starts = {} THEN <<>>
        ELSE Slice(s, Min(starts), RunEnd(s, RunEnd(s, Min(starts) + 2, Space), Digit))

\* is_heading_like = line.isupper() and len(line.split()) <= 6
is_heading_like(s) ==
    /\ \E k \in DOMAIN s : s[k] \in Range(Uppers)
    /\ \A k \in DOMAIN s : s[k] \notin Range(Lowers)
    /\ Len(split(s)) <= 6

\* [full_id, details_text, info_type, ""]
pdf_record(id, cr, dets, info) ==
    <<IF cr # <<>> THEN id \o <<" ", "/", " ">> \o cr ELSE id,
      strip(join(<<"\n">>, dets)), info, <<>> >>

\* the stripped line at index pdf_i of the page in work
pdf_line == strip(LinePool[At(pdf_lines(pdf_doc[pdf_page]), pdf_i)])

\* is_next_guid = (i + 1 < len(lines)) and ("GUID: CYS-" in lines[i + 1])
is_next_guid ==
    /\ pdf_i + 1 < Len(pdf_lines(pdf_doc[pdf_page]))
    /\ is_guid_line(LinePool[At(pdf_lines(pdf_doc[pdf_page]), pdf_i + 1)])

PdfInit ==
    /\ pdf_doc \in Docs
    /\ pdf_page = 0
    /\ pdf_i = 0
    /\ current_id = <<>>
    /\ current_details = <<>>
    /\ cr_number = <<>>
    /\ pdf_info_type = REQUIREMENT
    /\ last_line_was_guid = FALSE
    /\ requirements = <<>>
    /\ pdf_pc = "page"

PdfIdle ==
    /\ pdf_doc = <<>>
    /\ pdf_page = 0
    /\ pdf_i = 0
    /\ current_id = <<>>
    /\ current_details = <<>>
    /\ cr_number = <<>>
    /\ pdf_info_type = REQUIREMENT
    /\ last_line_was_guid = FALSE
    /\ requirements = <<>>
    /\ pdf_pc = "done"

\* for page in doc: lines = ...
PdfPage ==
    /\ pdf_pc = "page"
    /\ pdf_page < Len(pdf_doc)
    /\ pdf_page' = pdf_page + 1
    /\ pdf_i' = 0
    /\ pdf_pc' = "line"
    /\ UNCHANGED <<pdf_doc, current_id, current_details, cr_number, pdf_info_type,
                   last_line_was_guid, requirements>>
    /\ UNCHANGED <<evars, mvars, dvars, tvars, rvars, xvars>>

\* the lines of the page are used up
PdfPageEnd ==
    /\ pdf_pc = "line"
    /\ pdf_i >= Len(pdf_lines(pdf_doc[pdf_page]))
    /\ pdf_pc' = "page"
    /\ UNCHANGED <<pdf_doc, pdf_page, pdf_i, current_id, current_details, cr_number,
                   pdf_info_type, last_line_was_guid, requirements>>
    /\ UNCHANGED <<evars, mvars, dvars, tvars, rvars, xvars>>

\* if is_guid_line: the block in work is appended when it has details, and
\* the line opens the next block
PdfGuidLine ==
    /\ pdf_pc = "line"
    /\ pdf_i < Len(pdf_lines(pdf_doc[pdf_page]))
    /\ is_guid_line(pdf_line)
    /\ requirements' =
           IF current_id # <<>> /\ current_details # <<>>
           THEN Append(requirements,
                       pdf_record(current_id, cr_number, current_details, pdf_info_type))
           ELSE requirements
    /\ current_id' = pdf_id(pdf_line)
    /\ cr_number' = pdf_cr(pdf_line)
    /\ pdf_info_type' = info_type_of(pdf_line)
    /\ current_details' = <<>>
    /\ last_line_was_guid' = TRUE
    /\ pdf_i' = pdf_i + 1
    /\ UNCHANGED <<pdf_doc, pdf_page, pdf_pc>>
    /\ UNCHANGED <<evars, mvars, dvars, tvars, rvars, xvars>>

\* elif current_id: the four branches of lines 51-63
PdfBlockLine ==
    /\ pdf_pc = "line"
    /\ pdf_i < Len(pdf_lines(pdf_doc[pdf_page]))
    /\ ~ is_guid_line(pdf_line)
    /\ current_id # <<>>
    /\ IF is_next_guid \/ is_heading_like(pdf_line) \/ last_line_was_guid
       THEN /\ current_id' = <<>>
            /\ current_details' = <<>>
            /\ cr_number' = <<>>
            /\ last_line_was_guid' = FALSE
            /\ UNCHANGED requirements
       ELSE IF Occurs(pdf_line, <<"C", "R", " ">>) # {} /\ cr_number = <<>>
       THEN /\ requirements' =
                   Append(requirements,
                          pdf_record(current_id, pdf_cr(pdf_line), current_details,
                                     pdf_info_type))
            /\ current_id' = <<>>
            /\ current_details' = <<>>
            /\ cr_number' = <<>>
            /\ UNCHANGED last_line_was_guid
       ELSE IF ~ TABLE_ROW_match(pdf_line)
       THEN /\ current_details' = Append(current_details, pdf_line)
            /\ last_line_was_guid' = FALSE
            /\ UNCHANGED <<current_id, cr_number, requirements>>
       ELSE UNCHANGED <<current_id, current_details, cr_number, last_line_was_guid,
                        requirements>>
    /\ pdf_i' = pdf_i + 1
    /\ UNCHANGED <<pdf_doc, pdf_page, pdf_info_type, pdf_pc>>
    /\ UNCHANGED <<evars, mvars, dvars, tvars, rvars, xvars>>

\* neither branch: no block is in work
PdfSkipLine ==
    /\ pdf_pc = "line"
    /\ pdf_i < Len(pdf_lines(pdf_doc[pdf_page]))
    /\ ~ is_guid_line(pdf_line)
    /\ current_id = <<>>
    /\ pdf_i' = pdf_i + 1
    /\ UNCHANGED <<pdf_doc, pdf_page, current_id, current_details, cr_number,
                   pdf_info_type, last_line_was_guid, requirements, pdf_pc>>
    /\ UNCHANGED <<evars, mvars, dvars, tvars, rvars, xvars>>

\* after the loop: the last block is appended when it has details; return
PdfReturn ==
    /\ pdf_pc = "page"
    /\ pdf_page = Len(pdf_doc)
    /\ requirements' =
           IF current_id # <<>> /\ current_details # <<>>
           THEN Append(requirements,
                       pdf_record(current_id, cr_number, current_details, pdf_info_type))
           ELSE requirements
    /\ pdf_pc' = "done"
    /\ UNCHANGED <<pdf_doc, pdf_page, pdf_i, current_id, current_details, cr_number,
                   pdf_info_type, last_line_was_guid>>
    /\ UNCHANGED <<evars, mvars, dvars, tvars, rvars, xvars>>

\* ------------------------------------------------------------------------
\* Specifications
\* ------------------------------------------------------------------------
vars == <<evars, mvars, others>>

\* the extraction variables while only the merge runs
ExtractIdle ==
    /\ pool = <<>>
    /\ doc = <<>>
    /\ cadence = <<>>
    /\ page_no = 0
    /\ i = 0
    /\ j = 0
    /\ details = <<>>
    /\ rows = <<>>
    /\ epc = "done"

\* the machines that do not run in a specification
OthersIdle == DiffIdle /\ ThreadsIdle /\ RunIdle /\ V3Idle /\ PdfIdle

\* the merge of save_to_excel
Init == MergeInit /\ ExtractIdle /\ OthersIdle
Next ==
    \/ \E rs \in RowLists, updating \in BOOLEAN : Begin(rs, updating)
    \/ MergeRow
    \/ Save
Spec == Init /\ [][Next]_vars

\* the segmentation of extract_requirements_from
InitExtract == ExtractInit /\ MergeInit /\ OthersIdle
NextExtract ==
    \/ PageNext \/ Return
    \/ OuterOpen \/ OuterSkip \/ OuterEnd
    \/ InnerBreak \/ InnerAppend \/ InnerSkip \/ InnerEnd
    \/ CloseEmit \/ CloseDrop
SpecExtract == InitExtract /\ [][NextExtract]_vars

\* the same with progress: the function runs in one thread and nothing
\* blocks it, so a step that can be taken is taken
SpecExtractFair == SpecExtract /\ WF_vars(NextExtract)

\* highlight_diff on its own
InitDiff == DiffInit /\ ExtractIdle /\ MergeInit /\ ThreadsIdle /\ RunIdle /\ V3Idle /\ PdfIdle
NextDiff == Diff \/ Rediff
SpecDiff == InitDiff /\ [][NextDiff]_vars

\* the worker threads, interleaved
InitThreads == ThreadsInit /\ ExtractIdle /\ MergeInit /\ DiffIdle /\ RunIdle /\ V3Idle /\ PdfIdle
NextThreads ==
    \/ \E t \in Threads, rs \in RowLists : Click(t, rs)
    \/ \E t \in Threads : Load(t)
    \/ \E t \in Threads : Store(t)
SpecThreads == InitThreads /\ [][NextThreads]_vars

\* a whole run of run_extraction
InitRun == RunInit /\ DiffIdle /\ ThreadsIdle /\ V3Idle /\ PdfIdle
NextRun ==
    \/ Open \/ Raise \/ Collect \/ NoData \/ Cancel \/ Abandon
    \/ PageNext \/ Return
    \/ OuterOpen \/ OuterSkip \/ OuterEnd
    \/ InnerBreak \/ InnerAppend \/ InnerSkip \/ InnerEnd
    \/ CloseEmit \/ CloseDrop
    \/ RunBegin \/ MergeRowOk \/ MergeRaises \/ Save
SpecRun == InitRun /\ [][NextRun]_vars

\* the calls of save_to_excel of mmulti-v3.py
InitV3 == V3Init /\ ExtractIdle /\ MergeInit /\ DiffIdle /\ ThreadsIdle /\ RunIdle /\ PdfIdle
NextV3 == \E rs \in RowLists, update_existing \in BOOLEAN : V3Save(rs, update_existing)
SpecV3 == InitV3 /\ [][NextV3]_vars

\* the segmentation of python_extract_pdf.py
InitPdf == PdfInit /\ ExtractIdle /\ MergeInit /\ DiffIdle /\ ThreadsIdle /\ RunIdle /\ V3Idle
NextPdf ==
    \/ PdfPage \/ PdfPageEnd \/ PdfGuidLine \/ PdfBlockLine \/ PdfSkipLine \/ PdfReturn
SpecPdf == InitPdf /\ [][NextPdf]_vars

\* ------------------------------------------------------------------------
\* Properties
\* ------------------------------------------------------------------------
\* the table as it stands: the workbook in work during a call, else the file
Tbl == IF mpc = "rows" THEN wb ELSE file

\* a revision column is one named by extract_cadence
IsCadence(h) == startswith(h, CADENCE_)

\* position of the first column named h (0 when there is none)
ColumnOf(header, h) ==
    IF h \in Range(header) THEN Min({k \in DOMAIN header : header[k] = h}) ELSE 0

\* all cell texts of two sheets agree
SameCells(body1, body2, width) ==
    /\ Len(body1) = Len(body2)
    /\ \A k \in DOMAIN body1 : \A c \in 1 .. width :
           cell_value(body1, k + 1, c) = cell_value(body2, k + 1, c)

\* C1: running save_to_excel on a list of rows and then again on the same
\* list against the resulting table leaves the table of the first run.
C1_MergeIdempotent ==
    mpc = "idle" =>
        \A rs \in RowLists :
            save_to_excel(save_to_excel(file, rs, TRUE), rs, TRUE)
                = save_to_excel(file, rs, TRUE)

\* C2: merging a row whose cell for that identifier and cadence already
\* holds exactly the row's text changes no cell text, adds no row and leaves
\* the columns and their order as they are.
C2_SameTextNoOp ==
    [][(/\ mpc = "rows"
        /\ todo # <<>>
        /\ Head(todo)[1] \in DOMAIN wb.guid_row
        /\ cell_value(wb.body, wb.guid_row[Head(todo)[1]],
                      ColumnOf(wb.header, Head(todo)[4])) = Head(todo)[3])
       => (/\ wb'.header = wb.header
           /\ SameCells(wb.body, wb'.body, Len(wb.header)))]_vars

\* C2 witness: a pass of the loop has merged a row into a cell that held the
\* row's text already
C2_Witness ==
    /\ mpc = "rows"
    /\ loc.r > 0
    /\ loc.prev # <<>>
    /\ loc.prev = loc.detail
    /\ cell_value(wb.body, loc.r, loc.c) = loc.detail

\* what a pass of the loop does to the revision cells: the cell of the row's
\* identifier and cadence goes from T to now, the others keep their text
PassWrites(Stored(_, _)) ==
    LET d == Head(todo)
        r == loc'.r
        c == loc'.c
        T == cell_value(wb.body, r, c)
    IN  /\ cell_value(wb'.body, r, c) = Stored(T, d[3])
        /\ \A k \in 2 .. max_row(wb'.body) : \A c2 \in DOMAIN wb.header :
               (IsCadence(wb.header[c2]) /\ <<k, c2>> # <<r, c>>)
                   => cell_value(wb'.body, k, c2) = cell_value(wb.body, k, c2)

\* C3 as amended: the cell takes the row's text verbatim when it holds no
\* text, takes highlight_diff(T, incoming) when it holds a different text T
\* (which is the incoming text itself when the diff marks no token), and
\* keeps its text otherwise; no other revision cell changes.
C3_DiffOnOverwrite ==
    [][(mpc = "rows" /\ todo # <<>>)
       => PassWrites(LAMBDA T, incoming :
              IF T = <<>> THEN incoming
              ELSE IF incoming # T THEN highlight_diff(T, incoming)
              ELSE T)]_vars

\* C3 as claimed: as above, and a cell that held a different text never
\* ends up holding the incoming text verbatim.
C3_NeverVerbatim ==
    [][(mpc = "rows" /\ todo # <<>>)
       => /\ PassWrites(LAMBDA T, incoming :
                 IF T = <<>> THEN incoming
                 ELSE IF incoming # T THEN highlight_diff(T, incoming)
                 ELSE T)
          /\ LET T == cell_value(wb.body, loc'.r, loc'.c)
             IN  (T # <<>> /\ Head(todo)[3] # T)
                     => cell_value(wb'.body, loc'.r, loc'.c) # Head(todo)[3]]_vars

\* C3 witness: a pass has overwritten a cell that held another text, and the
\* cell holds the diff with its markers
C3_Witness ==
    /\ mpc = "rows"
    /\ loc.r > 0
    /\ loc.prev # <<>>
    /\ loc.prev # loc.detail
    /\ cell_value(wb.body, loc.r, loc.c) = highlight_diff(loc.prev, loc.detail)
    /\ cell_value(wb.body, loc.r, loc.c) # loc.detail

\* the type tag of the k-th row under the header
TypeTag(t, k) == cell_value(t.body, k + 1, ColumnOf(t.header, REQ_INFO))
\* the identifier of the k-th row under the header
Identifier(t, k) == cell_value(t.body, k + 1, ColumnOf(t.header, REQ_ID))

\* C4: the type tag of a row is the one written when the row was created;
\* no later row of the same or a later call changes it.
C4_TypeTagImmutable ==
    [][\A k \in DOMAIN Tbl.body :
           /\ k \in DOMAIN Tbl'.body
           /\ Identifier(Tbl', k) = Identifier(Tbl, k)
           /\ TypeTag(Tbl', k) = TypeTag(Tbl, k)]_vars

\* C4 witness: a pass has merged a row whose type tag differs from the tag
\* of the table row of its identifier
C4_Witness ==
    /\ mpc = "rows"
    /\ loc.r > 0
    /\ TypeTag(wb, loc.r - 1) # loc.info_type
    /\ Identifier(wb, loc.r - 1) = loc.guid

\* C5: no two rows hold identifiers that are equal after removing
\* whitespace and normalizing letter case.
C5_OneRowPerIdentifier ==
    \A k1, k2 \in DOMAIN Tbl.body :
        k1 # k2 => lower(clean(Identifier(Tbl, k1))) # lower(clean(Identifier(Tbl, k2)))

\* C6: a revision column keeps its position from one step to the next, and
\* no cadence names two columns.
C6_ColumnsAppendOnly ==
    [][/\ \A k \in DOMAIN Tbl.header :
              IsCadence(Tbl.header[k])
                  => (k \in DOMAIN Tbl'.header /\ Tbl'.header[k] = Tbl.header[k])
       /\ \A k1, k2 \in DOMAIN Tbl'.header :
              (k1 # k2 /\ IsCadence(Tbl'.header[k1])) => Tbl'.header[k1] # Tbl'.header[k2]]_vars

\* C6 witness: an incremental call has added a revision column to a table
\* that had one
C6_Witness ==
    /\ mpc = "rows"
    /\ file.exists
    /\ \E k \in DOMAIN file.header : IsCadence(file.header[k])
    /\ Len(wb.header) > Len(file.header)
    /\ \A k \in DOMAIN file.header : wb.header[k] = file.header[k]

\* C7: the columns are Identifier, Type, the revision columns, and the
\* service column last.
C7_ServiceColumnLast ==
    Tbl.header # <<>> =>
        /\ Len(Tbl.header) >= 3
        /\ Tbl.header[1] = REQ_ID
        /\ Tbl.header[2] = REQ_INFO
        /\ Tbl.header[Len(Tbl.header)] = HSE_SERVICE
        /\ \A k \in 3 .. Len(Tbl.header) - 1 : IsCadence(Tbl.header[k])

\* C8: a block whose detail buffer is empty when it is closed appends no
\* record, and every record has a non-empty detail text.
C8_EmptyBlockDropped ==
    [][/\ (epc = "close" /\ details = <<>>) => rows' = rows
       /\ \A k \in DOMAIN rows' : rows'[k][3] # <<>>]_vars

\* C8 witness: on the first page a block has just been closed with an empty
\* buffer after a skipped line
C8_Witness ==
    /\ epc = "outer"
    /\ page_no = 1
    /\ i = j
    /\ i >= 2
    /\ details = <<>>
    /\ pool[At(lines, i - 1)].skipped
    /\ ~ pool[At(lines, i - 1)].is_guid

\* HeaderFooter, TableRow or SectionHeading in the first-match-wins order
Inert(x) == pool[x].header_footer \/ pool[x].table_row \/ pool[x].heading

\* C9: a HeaderFooter, TableRow or SectionHeading line opens no block,
\* closes no block and adds nothing to the detail buffer or the records.
C9_SkippedLinesInert ==
    [][/\ (epc = "outer" /\ i < Len(lines) /\ Inert(At(lines, i)))
              => (epc' = "outer" /\ details' = details /\ rows' = rows)
       /\ (epc = "inner" /\ j < Len(lines) /\ Inert(At(lines, j)))
              => (epc' = "inner" /\ details' = details /\ rows' = rows)]_vars

\* a Detail line: no identifier and none of the skip patterns
IsDetail(x) == ~ pool[x].is_guid /\ ~ pool[x].skipped

\* C10: a block that is open at the end of a page stays open when the next
\* page starts with a Detail line (whose text belongs to the block).
C10_BlockSpansPages ==
    [][(/\ epc = "inner"
        /\ j >= Len(lines)
        /\ page_no < Len(doc)
        /\ page_lines(doc[page_no + 1]) # <<>>
        /\ IsDetail(page_lines(doc[page_no + 1])[1]))
       => epc' # "close"]_vars


\* the tokens of a returned text without the insertion markers
unmarked(w) ==
    IF Len(w) >= 2 /\ w[1] = "*" /\ w[Len(w)] = "*" THEN SubSeq(w, 2, Len(w) - 1) ELSE w

\* C11: the text highlight_diff(old, new) returns consists of exactly the
\* tokens of new in their order, each either plain or wrapped in one pair of
\* '*' markers, and nothing else: with the markers removed its tokens are
\* the tokens of new.
C11_OutputIsNewTokens ==
    (hd_pc = "returned" /\ hd_n = 1) =>
        [k \in DOMAIN split(hd_out) |-> unmarked(split(hd_out)[k])] = split(hd_new)

\* C12: diffing a returned text against the same incoming text returns it
\* unchanged: highlight_diff(highlight_diff(old, new), new) =
\* highlight_diff(old, new).
C12_RediffIsFixedPoint ==
    (hd_pc = "returned" /\ hd_n >= 2) => hd_out = hd_old


\* C13: the merge phase is single-writer: at any time at most one run is
\* between loading and saving the table.
C13_SingleWriter ==
    Cardinality({t \in Threads : thr[t].pc = "loaded"}) <= 1


\* extract_requirements_from as a function of the document when no
\* statement raises: the end of the block opened before index k
RECURSIVE block_end(_, _)
block_end(ls, k) ==
    IF k >= Len(ls) \/ pool[At(ls, k)].is_guid THEN k ELSE block_end(ls, k + 1)

\* details of the block lines[lo:hi]
block_details(ls, lo, hi) ==
    LET kept == SelectSeq(Slice(ls, lo, hi), LAMBDA x : ~ pool[x].skipped)
    IN  [n \in DOMAIN kept |-> pool[kept[n]].line]

\* the records of a page from index k on
RECURSIVE page_rows(_, _, _)
page_rows(ls, k, cad) ==
    IF k >= Len(ls) THEN <<>>
    ELSE IF pool[At(ls, k)].guids = <<>> THEN page_rows(ls, k + 1, cad)
    ELSE (IF block_details(ls, k + 1, block_end(ls, k + 1)) = <<>> THEN <<>>
          ELSE block_rows(At(ls, k), block_details(ls, k + 1, block_end(ls, k + 1)), cad))
         \o page_rows(ls, block_end(ls, k + 1), cad)

\* the records of the pages from page n on
RECURSIVE pages_rows(_, _, _)
pages_rows(d, n, cad) ==
    IF n > Len(d) THEN <<>>
    ELSE page_rows(page_lines(d[n]), 0, cad) \o pages_rows(d, n + 1, cad)

\* what the files processed so far contribute when the files in failed raise
RECURSIVE contributed(_, _, _)
contributed(fs, n, failed) ==
    IF n = 0 THEN <<>>
    ELSE contributed(fs, n - 1, failed)
         \o (IF n \in failed THEN <<>>
             ELSE pages_rows(fs[n], 1, extract_cadence(get_text(fs[n][1]))))

\* the table is the one the run started from
Untouched == file = table0

\* C14: whenever a run is abandoned or ends, the workbook on disk is the
\* initial table merged with the rows of a prefix of the documents (none of
\* them, or all of them once all were read), and every row of it holds an
\* identifier and a type tag.
C14_AbandonLeavesPrefix ==
    /\ Untouched \/ (idx = Len(files) /\ file = save_to_excel(table0, all_rows, update_var))
    /\ \A k \in DOMAIN file.body : file.body[k][1] # <<>> /\ file.body[k][2] # <<>>

\* a run was abandoned after its two documents were read, and the table on
\* disk is the initial one, not the merged one
C14_Witness ==
    /\ rpc = "abandoned"
    /\ idx = Len(files)
    /\ Len(files) = 2
    /\ all_rows # <<>>
    /\ file = table0
    /\ file # save_to_excel(table0, all_rows, update_var)

\* C15: a document whose reading raised contributes no record and is named
\* in an error message, the loop goes on, and the other documents contribute
\* what they contribute when read alone.
C15_FailureIsolated ==
    /\ (rpc \in {"files", "returned", "raised"}) =>
           (all_rows = contributed(files, idx, Range(shown)))
    /\ (rpc = "extract") =>
           (all_rows = contributed(files, idx, Range(shown) \ {idx + 1}))
    /\ \A n \in DOMAIN shown : shown[n] \in 1 .. Len(files)

\* the first of two documents raised after a record was appended, the
\* second was read and its records collected
C15_Witness ==
    /\ rpc = "files"
    /\ idx = 2
    /\ shown = <<1>>
    /\ pages_rows(files[1], 1, CADENCE_UNKNOWN) # <<>>
    /\ all_rows # <<>>

\* C16: in update mode, when the header row of the existing table does not
\* hold "Requirement ID", nothing is saved: the table on disk stays as it was.
C16_NoIdentifierColumnStops ==
    (update_var /\ REQ_ID \notin Range(table0.header)) => file = table0


\* the service cell of row k of a workbook on disk
ServiceOf(f, k) == f.body[k][ColumnOf(f.header, HSE_SERVICE)]

\* C17: a call of save_to_excel leaves the "HSE Service" cell of every row
\* that was there before as it was, and gives no new row a service.
C17_ServiceNeverWritten ==
    [][/\ \A k \in DOMAIN v3_file.body : ServiceOf(v3_file', k) = ServiceOf(v3_file, k)
       /\ \A k \in DOMAIN v3_file'.body \ DOMAIN v3_file.body : ServiceOf(v3_file', k) = <<>>]_vars

\* C19: the cadence columns a call of save_to_excel of mmulti-v3.py appends
\* stand in the order in which the supplied rows first name them.
C19_ColumnsInFirstSeenOrder ==
    [][v3_file'.header =
          add_service(add_cadences(IF v3_file.exists THEN v3_file.header
                                   ELSE <<REQ_ID, REQ_INFO>>, v3_rows'))]_vars


\* C18: when a block with at least one detail line is closed, exactly one
\* record per identifier occurrence of its opening line is appended, in the
\* order of the occurrences, all with the same type tag, detail text and
\* cadence.
C18_OneRecordPerIdentifier ==
    [][(epc = "close" /\ details # <<>>) =>
          /\ Len(rows') = Len(rows) + Len(pool[At(lines, i)].guids)
          /\ SubSeq(rows', 1, Len(rows)) = rows
          /\ \A k \in DOMAIN pool[At(lines, i)].guids :
                /\ rows'[Len(rows) + k][1] = clean(pool[At(lines, i)].guids[k])
                /\ rows'[Len(rows) + k][2] = rows'[Len(rows) + 1][2]
                /\ rows'[Len(rows) + k][3] = format_paragraph(details)
                /\ rows'[Len(rows) + k][4] = cadence]_vars

\* a one-page document whose only identifier line holds two identifiers
\* has been read and has given two records
C18_Witness ==
    /\ epc = "done"
    /\ Len(doc) = 1
    /\ Cardinality({k \in DOMAIN doc[1] : pool[doc[1][k]].guids # <<>>}) = 1
    /\ \E k \in DOMAIN doc[1] : Len(pool[doc[1][k]].guids) = 2
    /\ Len(rows) = 2
    /\ rows[1][1] # rows[2][1]


\* a Detail line for python_extract_pdf.py: it is not removed as header or
\* footer, holds no identifier marker and no change request, and is neither
\* heading-like nor table-like
PdfDetail(x) ==
    /\ ~ pdf_header_footer(LinePool[x])
    /\ ~ is_guid_line(LinePool[x])
    /\ ~ is_heading_like(strip(LinePool[x]))
    /\ ~ TABLE_ROW_match(strip(LinePool[x]))
    /\ Occurs(LinePool[x], <<"C", "R">>) = {}
    /\ strip(LinePool[x]) # <<>>

\* C20: a document that is an Identifier line followed by Detail lines up
\* to the end of the stream yields exactly one record, for that identifier,
\* with those lines as its detail text.
C20_BlockYieldsRecord ==
    (/\ pdf_pc = "done"
     /\ Len(pdf_doc) = 1
     /\ Len(pdf_doc[1]) >= 2
     /\ is_guid_line(LinePool[pdf_doc[1][1]])
     /\ \A k \in 2 .. Len(pdf_doc[1]) : PdfDetail(pdf_doc[1][k]))
    => /\ Len(requirements) = 1
       /\ requirements[1][1] = pdf_id(LinePool[pdf_doc[1][1]])
       /\ requirements[1][2] =
              strip(join(<<"\n">>, [k \in 1 .. Len(pdf_doc[1]) - 1 |->
                                       strip(LinePool[pdf_doc[1][k + 1]])]))


\* C21: the segmentation loop terminates. The outer index grows in every
\* iteration: by one on a line without identifier, and at the close of a
\* block to the index of the next line that holds an identifier, or to the
\* end of the page. The detail buffer of the open block holds exactly the
\* lines kept between its opening line and the inner index, so no line is
\* in the buffer of two blocks and no line opens a block twice.
C21_LoopTerminates ==
    /\ <>(epc = "done")
    /\ [](epc \in {"inner", "close"} =>
             /\ i < j
             /\ j <= Len(lines)
             /\ pool[At(lines, i)].guids # <<>>
             /\ \A k \in i + 1 .. j - 1 : ~ pool[At(lines, k)].is_guid
             /\ details = block_details(lines, i + 1, j))
    /\ [][/\ (epc = "outer" /\ i < Len(lines) /\ pool[At(lines, i)].guids = <<>>)
                 => i' = i + 1
          /\ (epc = "close")
                 => /\ i' = j
                    /\ i' > i
                    /\ (i' = Len(lines) \/ pool[At(lines, i')].is_guid)
          /\ (page_no' = page_no) => i' >= i]_vars

\* a page of three lines has been worked off: a line without identifier, an
\* identifier line, and a detail line that went into the block's buffer
C21_Witness ==
    /\ epc = "done"
    /\ Len(doc) = 1
    /\ Len(lines) = 3
    /\ pool[At(lines, 0)].guids = <<>>
    /\ pool[At(lines, 1)].guids # <<>>
    /\ IsDetail(At(lines, 2))
    /\ i = 3
    /\ Len(details) = 1
    /\ rows # <<>>

====
